---- MODULE Spec2Model ----
(***************************************************************************)
(* Model of two leaf components of the editor:                             *)
(*   - scmFileDecorations.ts: SCMDecorationsProvider (the bridge) and      *)
(*     FileDecorations (the registrar);                                    *)
(*   - argv.ts: validate, stripAppPath, the two entry points, and the help *)
(*     formatter.                                                          *)
(***************************************************************************)
EXTENDS FiniteSets, Integers, Sequences, TLC

(***************************************************************************)
(* Bounds.                                                                 *)
(***************************************************************************)
NumRepos == 2
MaxBridges == 3
MaxListeners == 2
MaxGroups == 2
MaxResources == 3
MaxInstances == 2
MaxArgs == 3
MaxTextLen == 4

Repos == 1..NumRepos

VARIABLES
    repositories,       \* ISCMService.repositories: sequence of repository handles
    addListeners,       \* live subscriptions of _onDidAddRepository on ISCMService.onDidAddRepository
    removeListeners,    \* live subscriptions of _onDidRemoveRepository on ISCMService.onDidRemoveRepository
    configEnabled,      \* IConfigurationService value scm.fileDecorations.enabled
    resources,          \* ISCMProvider.resources of each repository's provider
    bridges,            \* every SCMDecorationsProvider constructed so far, by identity
    _providers,         \* FileDecorations._providers: repository -> bridge/registration pair
    _repoListeners,     \* FileDecorations._repoListeners: the subscriptions it holds
    _configListener,    \* FileDecorations._configListener is live
    event,              \* what the last step did (calls made, notifications emitted)
    history,            \* configuration notifications seen so far, summarised
    process,            \* process.argv and whether process.env['VSCODE_DEV'] is set
    parsed,             \* the last entry-point call and how it ended
    help                \* a formatOptions call: its arguments, its locals, its result so far

vars == <<repositories, addListeners, removeListeners, configEnabled, resources,
          bridges, _providers, _repoListeners, _configListener, event, history,
          process, parsed, help>>

(***************************************************************************)
(* Sequences helpers.                                                      *)
(***************************************************************************)
Range(s) == {s[i] : i \in DOMAIN s}

SeqsUpTo(S, n) == UNION {[1..k -> S] : k \in 0..n}

RECURSIVE Without(_, _)
Without(s, x) ==
    IF s = <<>> THEN <<>>
    ELSE IF Head(s) = x THEN Without(Tail(s), x)
    ELSE <<Head(s)>> \o Without(Tail(s), x)

RECURSIVE SetToSeq(_)
SetToSeq(S) ==
    IF S = {} THEN <<>>
    ELSE LET m == CHOOSE x \in S : \A y \in S : x <= y
         IN  <<m>> \o SetToSeq(S \ {m})

(***************************************************************************)
(* The source-control provider's data (ISCMProvider, ISCMResource).        *)
(* A URI is an object; two distinct URI objects can have the same string   *)
(* form.                                                                   *)
(***************************************************************************)
UriA1 == [id |-> 1, str |-> "file:///a"]
UriA2 == [id |-> 2, str |-> "file:///a"]
UriB  == [id |-> 3, str |-> "file:///b"]

Uris == {UriA1, UriA2, UriB}

UriToString(uri) == uri.str

ResourceA1 ==
    [sourceUri |-> UriA1,
     decorations |-> [tooltip |-> "Modified", color |-> "yellow", icon |-> "m.svg", iconDark |-> "m-dark.svg"]]

ResourceA2 ==
    [sourceUri |-> UriA2,
     decorations |-> [tooltip |-> "Untracked", color |-> "green", icon |-> "u.svg", iconDark |-> "u-dark.svg"]]

ResourceObjs == {ResourceA1, ResourceA2}

Groups == SeqsUpTo(ResourceObjs, MaxResources)

RECURSIVE TotalResources(_)
TotalResources(groups) ==
    IF groups = <<>> THEN 0 ELSE Len(Head(groups)) + TotalResources(Tail(groups))

ProviderLabel(repo) == IF repo = 1 THEN "Git" ELSE "Svn"

NoEvent == [op |-> "none", repo |-> 0, bridge |-> 0, uri |-> <<>>, again |-> FALSE, created |-> <<>>,
            registered |-> <<>>, disposed |-> <<>>,
            fired |-> <<>>, received |-> <<>>, result |-> <<>>]

NoProcess == [argv |-> <<>>, dev |-> FALSE]

NotParsed == [entry |-> "none", status |-> "none", vector |-> <<>>, args |-> <<>>]

NoHelp == [pc |-> "none", options |-> <<>>, columns |-> 0, argLength |-> 0, condensed |-> FALSE,
           k |-> 0, text |-> <<>>, lines |-> <<>>, wrapped |-> <<>>, result |-> <<>>]

(***************************************************************************)
(* SCMDecorationsProvider.                                                 *)
(***************************************************************************)

\* The inner loop with unshift in place of push.
RECURSIVE GroupUris_Unshift(_)
GroupUris_Unshift(group) ==
    IF group = <<>> THEN <<>>
    ELSE GroupUris_Unshift(Tail(group)) \o <<Head(group).sourceUri>>

\* _updateGroups, lines 39-44: the nested loops that push each sourceUri.
RECURSIVE GroupUris(_)
GroupUris(group) ==
    IF group = <<>> THEN <<>>
    ELSE <<Head(group).sourceUri>> \o GroupUris(Tail(group))

RECURSIVE _updateGroupsUris(_)
_updateGroupsUris(groups) ==
    IF groups = <<>> THEN <<>>
    ELSE GroupUris(Head(groups)) \o _updateGroupsUris(Tail(groups))

\* Emitter.fire on the bridge's _onDidChange: the decorations service listens
\* once the bridge is registered with it.
Fire(st, b, uris) ==
    [st EXCEPT
        !.ev.fired = Append(@, [bridge |-> b, uris |-> uris]),
        !.ev.received = IF st.bridges[b].registered
                        THEN Append(@, [bridge |-> b, uris |-> uris])
                        ELSE @]

\* _updateGroups of bridge b.
_updateGroups(st, b) ==
    Fire(st, b, _updateGroupsUris(st.resources[st.bridges[b].repo]))

\* constructor: subscribe to the provider, then _updateGroups().
SCMDecorationsProvider_new(st, repo) ==
    LET b == Len(st.bridges) + 1
        made == [st EXCEPT
                    !.bridges = Append(@, [repo |-> repo, subscribed |-> TRUE, registered |-> FALSE,
                                           disposed |-> FALSE]),
                    !.ev.created = Append(@, b)]
    IN  _updateGroups(made, b)

\* A dispose() that leaves the provider subscription in place.
SCMDecorationsProvider_dispose_KeepsSubscription(st, b) ==
    [st EXCEPT !.bridges[b].disposed = TRUE]

\* dispose: this._disposable.dispose(). The field disposed records the call.
SCMDecorationsProvider_dispose(st, b) ==
    [st EXCEPT !.bridges[b].subscribed = FALSE, !.bridges[b].disposed = TRUE]

\* localize(key, "{0} - {1}", a, b): each placeholder replaced by its argument.
Localize(template, args) ==
    [i \in DOMAIN template |->
        IF template[i] = "{0}" THEN args[1]
        ELSE IF template[i] = "{1}" THEN args[2]
        ELSE template[i]]

Decoration(resource, label) ==
    [severity |-> "Info",
     color |-> resource.decorations.color,
     suffix |-> "*",
     tooltip |-> Localize(<<"{0}", " - ", "{1}">>, <<resource.decorations.tooltip, label>>),
     icon |-> [light |-> resource.decorations.icon, dark |-> resource.decorations.iconDark]]

\* A lookup that compares the URI objects instead of their string forms.
MatchesUri_ByIdentity(resource, uri) ==
    resource.sourceUri = uri

\* resource.sourceUri.toString() === uri.toString()
MatchesUri(resource, uri) ==
    UriToString(resource.sourceUri) = UriToString(uri)

\* provideDecorations, lines 50-60: the inner loop; <<>> when it falls through.
RECURSIVE ProvideFromGroup(_, _, _)
ProvideFromGroup(group, label, uri) ==
    IF group = <<>> THEN <<>>
    ELSE IF MatchesUri(Head(group), uri) THEN <<Decoration(Head(group), label)>>
    ELSE ProvideFromGroup(Tail(group), label, uri)

\* provideDecorations, lines 49-62: <<d>> for a returned decoration d, <<>> for undefined.
RECURSIVE provideDecorations(_, _, _)
provideDecorations(groups, label, uri) ==
    IF groups = <<>> THEN <<>>
    ELSE LET found == ProvideFromGroup(Head(groups), label, uri)
         IN  IF found # <<>> THEN found
             ELSE provideDecorations(Tail(groups), label, uri)

(***************************************************************************)
(* IResourceDecorationsService.                                            *)
(***************************************************************************)
registerDecortionsProvider(st, b) ==
    [st EXCEPT !.bridges[b].registered = TRUE, !.ev.registered = Append(@, b)]

Registration_dispose(st, b) ==
    [st EXCEPT !.bridges[b].registered = FALSE]

\* combinedDisposable([registration, provider]).dispose()
Pair_dispose(st, b) ==
    LET logged == [st EXCEPT !.ev.disposed = Append(@, b)]
    IN  SCMDecorationsProvider_dispose(Registration_dispose(logged, b), b)

(***************************************************************************)
(* FileDecorations.                                                        *)
(***************************************************************************)
_onDidAddRepository(st, repo) ==
    LET b == Len(st.bridges) + 1
        constructed == SCMDecorationsProvider_new(st, repo)
        registered == registerDecortionsProvider(constructed, b)
    IN  [registered EXCEPT !.providers = (repo :> b) @@ @]

\* The handler without its this._providers.delete(repo).
_onDidRemoveRepository_NoDelete(st, repo) ==
    IF repo \in DOMAIN st.providers
    THEN Pair_dispose(st, st.providers[repo])
    ELSE st

_onDidRemoveRepository(st, repo) ==
    IF repo \in DOMAIN st.providers
    THEN LET listener == st.providers[repo]
             deleted == [st EXCEPT !.providers = [r \in (DOMAIN @) \ {repo} |-> @[r]]]
         IN  Pair_dispose(deleted, listener)
    ELSE st

\* this._scmService.repositories.forEach(this._onDidAddRepository, this)
RECURSIVE ForEachAdd(_, _)
ForEachAdd(st, repos) ==
    IF repos = <<>> THEN st
    ELSE ForEachAdd(_onDidAddRepository(st, Head(repos)), Tail(repos))

\* this._providers.forEach(value => dispose(value))
RECURSIVE ForEachDispose(_, _)
ForEachDispose(st, pairs) ==
    IF pairs = <<>> THEN st
    ELSE ForEachDispose(Pair_dispose(st, Head(pairs)), Tail(pairs))

ProvidersValues(st) == [i \in 1..Len(SetToSeq(DOMAIN st.providers)) |->
                            st.providers[SetToSeq(DOMAIN st.providers)[i]]]

\* dispose(this._repoListeners): dispose each held subscription; disposing a
\* subscription a second time does nothing.
DisposeRepoListeners(st) ==
    LET Held(name) == {i \in DOMAIN st.repoListeners :
                          /\ st.repoListeners[i].event = name
                          /\ ~st.repoListeners[i].disposed}
    IN  [st EXCEPT
            !.addListeners = @ - Cardinality(Held("onDidAddRepository")),
            !.removeListeners = @ - Cardinality(Held("onDidRemoveRepository")),
            !.repoListeners = [i \in DOMAIN @ |-> [@[i] EXCEPT !.disposed = TRUE]]]

_update(st, enabled, repos) ==
    IF enabled
    THEN [ForEachAdd(st, repos) EXCEPT
            !.repoListeners = << [event |-> "onDidAddRepository", disposed |-> FALSE],
                                 [event |-> "onDidRemoveRepository", disposed |-> FALSE] >>,
            !.addListeners = @ + 1,
            !.removeListeners = @ + 1]
    ELSE [DisposeRepoListeners(ForEachDispose(st, ProvidersValues(st))) EXCEPT
            !.repoListeners = <<>>]

\* dispose(): the pairs, the held subscriptions, the configuration listener
\* (the action that calls this clears _configListener).
FileDecorations_dispose(st) ==
    DisposeRepoListeners(ForEachDispose(st, ProvidersValues(st)))

\* Emitter.fire: call the handler once per live subscription.
RECURSIVE FireAdd(_, _, _)
FireAdd(st, n, repo) ==
    IF n = 0 THEN st ELSE FireAdd(_onDidAddRepository(st, repo), n - 1, repo)

RECURSIVE FireRemove(_, _, _)
FireRemove(st, n, repo) ==
    IF n = 0 THEN st ELSE FireRemove(_onDidRemoveRepository(st, repo), n - 1, repo)

(***************************************************************************)
(* The state as a record the handlers transform, and back.                 *)
(***************************************************************************)
Current(op, repo) ==
    [bridges |-> bridges, providers |-> _providers, repoListeners |-> _repoListeners,
     resources |-> resources,
     addListeners |-> addListeners, removeListeners |-> removeListeners,
     ev |-> [NoEvent EXCEPT !.op = op, !.repo = repo]]

Becomes(st) ==
    /\ bridges' = st.bridges
    /\ _providers' = st.providers
    /\ _repoListeners' = st.repoListeners
    /\ addListeners' = st.addListeners
    /\ removeListeners' = st.removeListeners
    /\ resources' = st.resources
    /\ event' = st.ev

InitialResources ==
    [r \in Repos |-> << <<ResourceA1>>, <<ResourceA2>> >>]

Blank ==
    [bridges |-> <<>>, providers |-> <<>>, repoListeners |-> <<>>,
     resources |-> InitialResources,
     addListeners |-> 0, removeListeners |-> 0,
     ev |-> [NoEvent EXCEPT !.op = "constructor"]]

InitialRepositories ==
    {s \in SeqsUpTo(Repos, NumRepos) : \A i, j \in DOMAIN s : i # j => s[i] # s[j]}

(***************************************************************************)
(* Registrar specification.                                                *)
(***************************************************************************)
Init ==
    /\ repositories \in InitialRepositories
    /\ configEnabled \in BOOLEAN
    /\ resources = InitialResources
    /\ _configListener = TRUE
    /\ process = NoProcess
    /\ parsed = NotParsed
    /\ help = NoHelp
    /\ history = [enabled |-> configEnabled, notified |-> FALSE, cycle |-> 0, redundant |-> FALSE]
    /\ LET st == _update(Blank, configEnabled, repositories)
       IN  /\ bridges = st.bridges
           /\ _providers = st.providers
           /\ _repoListeners = st.repoListeners
           /\ addListeners = st.addListeners
           /\ removeListeners = st.removeListeners
           /\ event = st.ev

\* The configuration service updates the setting and notifies its listeners.
ConfigurationChange(value) ==
    /\ configEnabled' = value
    /\ IF _configListener
       THEN /\ value => /\ Len(bridges) + Len(repositories) <= MaxBridges
                        /\ addListeners < MaxListeners
            /\ Becomes(_update(Current("config", 0), value, repositories))
            /\ history' = [enabled |-> value,
                           notified |-> TRUE,
                           cycle |-> IF value
                                     THEN (IF history.cycle = 1 THEN 2 ELSE 0)
                                     ELSE (IF history.enabled THEN 1 ELSE 0),
                           redundant |-> history.redundant \/ (value /\ history.enabled)]
       ELSE /\ Becomes(Current("config", 0))
            /\ UNCHANGED history
    /\ UNCHANGED <<repositories, _configListener, process, parsed, help>>

\* The SCM service registers a repository and fires onDidAddRepository.
AddRepository(repo) ==
    /\ repo \notin Range(repositories)
    /\ Len(bridges) + addListeners <= MaxBridges
    /\ repositories' = Append(repositories, repo)
    /\ Becomes(FireAdd(Current("add", repo), addListeners, repo))
    /\ history' = [history EXCEPT !.cycle = IF @ = 2 THEN 0 ELSE @]
    /\ UNCHANGED <<configEnabled, _configListener, process, parsed, help>>

\* The SCM service fires onDidRemoveRepository.
RemoveRepository(repo) ==
    /\ repositories' = Without(repositories, repo)
    /\ Becomes(FireRemove([Current("remove", repo) EXCEPT
                                !.ev.again = /\ event.op = "remove"
                                             /\ event.repo = repo
                                             /\ event.disposed # <<>>],
                           removeListeners, repo))
    /\ history' = [history EXCEPT !.cycle = IF @ = 2 THEN 0 ELSE @]
    /\ UNCHANGED <<configEnabled, _configListener, process, parsed, help>>

\* FileDecorations.dispose()
Dispose ==
    /\ Becomes(FileDecorations_dispose(Current("dispose", 0)))
    /\ _configListener' = FALSE
    /\ history' = [history EXCEPT !.cycle = 0]
    /\ UNCHANGED <<repositories, configEnabled, process, parsed, help>>

Next ==
    \/ \E value \in BOOLEAN : ConfigurationChange(value)
    \/ \E repo \in Repos : AddRepository(repo)
    \/ \E repo \in Repos : RemoveRepository(repo)
    \/ Dispose

Spec == Init /\ [][Next]_vars

(***************************************************************************)
(* Bridge specification: one repository's provider, bridges constructed    *)
(* and disposed directly, the provider's resource list edited, decorations *)
(* queried.                                                                *)
(***************************************************************************)
InitBridge ==
    /\ repositories = <<1>>
    /\ configEnabled = FALSE
    /\ resources = InitialResources
    /\ _configListener = FALSE
    /\ process = NoProcess
    /\ parsed = NotParsed
    /\ help = NoHelp
    /\ history = [enabled |-> FALSE, notified |-> FALSE, cycle |-> 0, redundant |-> FALSE]
    /\ bridges = <<>>
    /\ _providers = <<>>
    /\ _repoListeners = <<>>
    /\ addListeners = 0
    /\ removeListeners = 0
    /\ event = NoEvent

\* new SCMDecorationsProvider(repo.provider)
BridgeConstruct(repo) ==
    /\ Len(bridges) < MaxInstances
    /\ Becomes(SCMDecorationsProvider_new(Current("construct", repo), repo))
    /\ UNCHANGED <<repositories, configEnabled, _configListener, history, process, parsed, help>>

\* bridge.dispose()
BridgeDispose(b) ==
    /\ Becomes(SCMDecorationsProvider_dispose([Current("disposeBridge", bridges[b].repo)
                                                   EXCEPT !.ev.disposed = <<b>>], b))
    /\ UNCHANGED <<repositories, configEnabled, _configListener, history, process, parsed, help>>

RemoveAt(s, j) == [i \in 1..(Len(s) - 1) |-> IF i < j THEN s[i] ELSE s[i + 1]]

\* The resource lists one edit of the provider's groups can produce: a group
\* added or removed, a resource added to a group or removed from it.
Edits(groups) ==
    (IF Len(groups) < MaxGroups THEN {Append(groups, <<>>)} ELSE {})
    \cup {RemoveAt(groups, j) : j \in DOMAIN groups}
    \cup (IF TotalResources(groups) < MaxResources
          THEN {[groups EXCEPT ![j] = Append(@, x)] : j \in DOMAIN groups, x \in ResourceObjs}
          ELSE {})
    \cup UNION {{[groups EXCEPT ![j] = RemoveAt(@, i)] : i \in DOMAIN groups[j]} :
                    j \in DOMAIN groups}

\* Emitter.fire of onDidChangeResources: _updateGroups of each subscribed bridge.
RECURSIVE FireChange(_, _, _)
FireChange(st, b, repo) ==
    IF b > Len(st.bridges) THEN st
    ELSE IF st.bridges[b].repo = repo /\ st.bridges[b].subscribed
    THEN FireChange(_updateGroups(st, b), b + 1, repo)
    ELSE FireChange(st, b + 1, repo)

\* The provider changes its resources and fires onDidChangeResources.
ChangeResources(repo, groups) ==
    /\ Becomes(FireChange([Current("change", repo) EXCEPT !.resources[repo] = groups], 1, repo))
    /\ UNCHANGED <<repositories, configEnabled, _configListener, history, process, parsed, help>>

\* bridge.provideDecorations(uri)
ProvideDecorations(b, uri) ==
    /\ Becomes([Current("query", bridges[b].repo) EXCEPT
                    !.ev.bridge = b,
                    !.ev.uri = uri,
                    !.ev.result = provideDecorations(resources[bridges[b].repo],
                                                     ProviderLabel(bridges[b].repo), uri)])
    /\ UNCHANGED <<repositories, configEnabled, _configListener, history, process, parsed, help>>

NextBridge ==
    \/ \E repo \in Range(repositories) : BridgeConstruct(repo)
    \/ \E b \in DOMAIN bridges : BridgeDispose(b)
    \/ \E repo \in Range(repositories) : \E groups \in Edits(resources[repo]) :
            ChangeResources(repo, groups)
    \/ \E b \in DOMAIN bridges : \E uri \in Uris : ProvideDecorations(b, uri)

SpecBridge == InitBridge /\ [][NextBridge]_vars

(***************************************************************************)
(* Registrar properties.                                                   *)
(***************************************************************************)
Registered(repo) == {b \in DOMAIN bridges : bridges[b].repo = repo /\ bridges[b].registered}

Live(repo) == {b \in DOMAIN bridges :
                  bridges[b].repo = repo /\ (bridges[b].registered \/ bridges[b].subscribed)}

Retained == {_providers[r] : r \in DOMAIN _providers}

Leaked == {b \in DOMAIN bridges :
              (bridges[b].registered \/ bridges[b].subscribed) /\ b \notin Retained}

\* C1: from an enabled registrar, a configuration notification reading disabled
\* followed by one reading enabled leaves exactly one live bridge registered per
\* known repository and no live registration the registrar cannot dispose.
C1_CycleLeavesOnePerRepository ==
    (event.op = "config" /\ history.cycle = 2) =>
        /\ \A r \in Range(repositories) : Cardinality(Registered(r)) = 1
        /\ Leaked = {}

\* The same cycle when every earlier notification changed the flag.
CycleFromFreshRegistrar ==
    (event.op = "config" /\ history.cycle = 2 /\ ~history.redundant) =>
        /\ \A r \in Range(repositories) : Cardinality(Registered(r)) = 1
        /\ Leaked = {}

\* C2: in every reachable state at most one live bridge/registration pair
\* exists per repository handle.
C2_AtMostOneLivePerRepository ==
    \A r \in Repos : Cardinality(Live(r)) <= 1

\* C3: after a configuration notification that reads disabled, every retained
\* pair is disposed, the registrar has no live repository subscription, and a
\* repository-added notification creates and registers no bridge.
C3_DisabledIsQuiet ==
    (history.notified /\ ~history.enabled) =>
        /\ \A b \in Retained : ~bridges[b].registered /\ ~bridges[b].subscribed
        /\ addListeners = 0
        /\ removeListeners = 0
        /\ event.op = "add" => (event.created = <<>> /\ event.registered = <<>>)

\* C4: while the registrar is enabled, each repository-added notification
\* constructs exactly one bridge and registers it with exactly one call.
C4_AddCreatesExactlyOne ==
    (event.op = "add" /\ history.enabled /\ _configListener) =>
        /\ Len(event.created) = 1
        /\ event.registered = event.created

\* C5: a repository-removed notification for a repository without an entry
\* changes no entry and no registration; with an entry, the pair is disposed
\* once and the entry deleted, so a second notification disposes nothing.
C5_RemoveIsIdempotent ==
    /\ [](event.op = "remove" /\ event.again => event.disposed = <<>>)
    /\ [][\A repo \in Repos : RemoveRepository(repo) =>
            IF repo \notin DOMAIN _providers
            THEN /\ UNCHANGED <<_providers, bridges>>
                 /\ event'.disposed = <<>>
            ELSE IF removeListeners > 0
            THEN /\ event'.disposed = <<_providers[repo]>>
                 /\ repo \notin DOMAIN _providers'
            ELSE UNCHANGED <<_providers, bridges>>]_vars

C5_Witness ==
    /\ event.op = "remove"
    /\ event.again
    /\ removeListeners > 0
    /\ event.disposed = <<>>

\* C6: after FileDecorations.dispose() no bridge is still registered or
\* subscribed and the registrar has no live subscription.
C6_DisposeReleasesEverything ==
    ~_configListener =>
        /\ \A b \in DOMAIN bridges : ~bridges[b].registered /\ ~bridges[b].subscribed
        /\ addListeners = 0
        /\ removeListeners = 0

(***************************************************************************)
(* Bridge properties.                                                      *)
(***************************************************************************)
RECURSIVE Offset(_, _)
Offset(groups, g) ==
    IF g <= 1 THEN 0 ELSE Len(groups[g - 1]) + Offset(groups, g - 1)

\* uris lists every resource's identifier once per occurrence, group by group
\* and in resource order inside a group.
IsFlattening(uris, groups) ==
    /\ Len(uris) = Offset(groups, Len(groups) + 1)
    /\ \A g \in DOMAIN groups : \A i \in DOMAIN groups[g] :
            uris[Offset(groups, g) + i] = groups[g][i].sourceUri

\* C7: each change notification a bridge emits carries exactly the identifiers
\* of the provider's resources at the time of the event, flattened in group
\* order and resource order, duplicates kept; every subscribed bridge emits one.
C7_NotificationIsFlattening ==
    /\ \A i \in DOMAIN event.fired :
            IsFlattening(event.fired[i].uris, resources[bridges[event.fired[i].bridge].repo])
    /\ event.op = "change" =>
            \A b \in DOMAIN bridges :
                (bridges[b].repo = event.repo /\ bridges[b].subscribed) =>
                    Cardinality({i \in DOMAIN event.fired : event.fired[i].bridge = b}) = 1

C7_Witness ==
    /\ event.op = "change"
    /\ Len(resources[event.repo]) = 2
    /\ Len(resources[event.repo][1]) = 2
    /\ resources[event.repo][1][1] # resources[event.repo][1][2]
    /\ resources[event.repo][2] = <<resources[event.repo][1][1]>>
    /\ event.fired # <<>>

Positions(groups) ==
    {p \in (DOMAIN groups) \X (1..MaxResources) : p[2] <= Len(groups[p[1]])}

Before(p, q) == p[1] < q[1] \/ (p[1] = q[1] /\ p[2] <= q[2])

\* C8: provideDecorations(uri) returns the decoration of the first resource, in
\* group order then resource order, whose identifier has the string form of
\* uri, its tooltip containing the resource's tooltip and the provider's
\* label; it returns nothing exactly when no resource has that identifier.
C8_FirstMatchOrNothing ==
    event.op = "query" =>
        LET groups == resources[event.repo]
            matches == {p \in Positions(groups) :
                           groups[p[1]][p[2]].sourceUri.str = event.uri.str}
        IN  IF matches = {}
            THEN event.result = <<>>
            ELSE LET first == CHOOSE p \in matches : \A q \in matches : Before(p, q)
                     resource == groups[first[1]][first[2]]
                 IN  /\ Len(event.result) = 1
                     /\ event.result[1].color = resource.decorations.color
                     /\ event.result[1].icon.light = resource.decorations.icon
                     /\ event.result[1].icon.dark = resource.decorations.iconDark
                     /\ resource.decorations.tooltip \in Range(event.result[1].tooltip)
                     /\ ProviderLabel(event.repo) \in Range(event.result[1].tooltip)

\* A query by a URI object that is not the stored one, with a second resource
\* of the same string form later in the list.
C8_Witness ==
    /\ event.op = "query"
    /\ event.uri = UriA1
    /\ event.result # <<>>
    /\ event.result[1].color = "green"
    /\ \E p \in Positions(resources[event.repo]) :
            resources[event.repo][p[1]][p[2]].sourceUri = UriA1

\* C9: a disposed bridge emits no notification on a later provider change, and
\* disposing a bridge changes nothing but that bridge's own subscription.
C9_DisposedIsSilent ==
    /\ [](event.op = "change" =>
            \A i \in DOMAIN event.fired : ~bridges[event.fired[i].bridge].disposed)
    /\ [][\A b \in DOMAIN bridges : BridgeDispose(b) =>
            /\ resources' = resources
            /\ event'.fired = <<>>
            /\ DOMAIN bridges' = DOMAIN bridges
            /\ \A c \in DOMAIN bridges : c # b => bridges'[c] = bridges[c]
            /\ bridges'[b].registered = bridges[b].registered
            /\ ~bridges'[b].subscribed
            /\ UNCHANGED <<_providers, _repoListeners, addListeners, removeListeners>>]_vars

C9_Witness ==
    /\ event.op = "change"
    /\ \E b, c \in DOMAIN bridges :
            /\ bridges[b].disposed
            /\ bridges[b].repo = event.repo
            /\ bridges[c].repo = event.repo
            /\ \E i \in DOMAIN event.fired : event.fired[i].bridge = c

\* C14: when a bridge is constructed for a repository and registered with the
\* decorations service, the service's listener receives a notification of that
\* bridge carrying the flattened identifiers of the provider's resources.
C14_ConstructionNotificationReceived ==
    \A i \in DOMAIN event.registered :
        \E k \in DOMAIN event.received :
            /\ event.received[k].bridge = event.registered[i]
            /\ IsFlattening(event.received[k].uris,
                            resources[bridges[event.registered[i]].repo])

\* The notification of C14 is emitted, whoever listens.
ConstructionNotificationEmitted ==
    \A i \in DOMAIN event.created :
        \E k \in DOMAIN event.fired :
            /\ event.fired[k].bridge = event.created[i]
            /\ IsFlattening(event.fired[k].uris, resources[bridges[event.created[i]].repo])

\* uri is among the identifiers of a notification, by string form.
Carries(uris, uri) == \E k \in DOMAIN uris : UriToString(uris[k]) = UriToString(uri)

\* C17: for every change of the provider's resource list, every identifier
\* whose provideDecorations result differs before and after the change, the
\* identifiers of removed resources included, is in the notification each
\* subscribed bridge emits for the change.
C17_ChangedIdentifiersNotified ==
    [][\A repo \in Range(repositories) :
        (event'.op = "change" /\ event'.repo = repo) =>
            \A b \in DOMAIN bridges :
                (bridges[b].repo = repo /\ bridges[b].subscribed) =>
                    \A uri \in Uris :
                        (provideDecorations(resources[repo], ProviderLabel(repo), uri)
                            # provideDecorations(resources'[repo], ProviderLabel(repo), uri)) =>
                                \E i \in DOMAIN event'.fired :
                                    /\ event'.fired[i].bridge = b
                                    /\ Carries(event'.fired[i].uris, uri)]_vars

\* The same for the identifiers that still have a decoration after the change.
DecoratedIdentifiersNotified ==
    event.op = "change" =>
        \A b \in DOMAIN bridges :
            (bridges[b].repo = event.repo /\ bridges[b].subscribed) =>
                \A uri \in Uris :
                    provideDecorations(resources[event.repo], ProviderLabel(event.repo), uri) # <<>> =>
                        \E i \in DOMAIN event.fired :
                            /\ event.fired[i].bridge = b
                            /\ Carries(event.fired[i].uris, uri)

(***************************************************************************)
(* argv.ts.  A command-line token is a sequence of characters.             *)
(***************************************************************************)
Chars == {"a", "0", ":", "/"}

IsDigit(c) == c = "0"

\* \w: letters, digits and the underscore.
IsWordChar(c) == c \in {"a", "0"}

Texts == SeqsUpTo(Chars, MaxTextLen)

TokGoto == <<"-", "-", "g", "o", "t", "o">>
TokG == <<"-", "g">>
TokLocale == <<"-", "-", "l", "o", "c", "a", "l", "e">>
TokDashDash == <<"-", "-">>
TokP == <<"-", "p">>
TokPs == <<"-", "-", "p", "s">>

\* The option name a flag token spells.
FlagKeys ==
    (TokGoto :> "goto") @@ (TokG :> "g") @@ (TokLocale :> "locale")
    @@ (TokP :> "p") @@ (TokPs :> "ps")

\* options, lines 13-76.
OptionsString ==
    {"locale", "user-data-dir", "extensions-dir", "extensionDevelopmentPath",
     "extensionTestsPath", "install-extension", "uninstall-extension", "debugId",
     "debugPluginHost", "debugBrkPluginHost", "debugSearch", "debugBrkSearch",
     "open-url", "enable-proposed-api", "export-default-configuration", "install-source"}

OptionsBoolean ==
    {"help", "version", "wait", "diff", "add", "goto", "new-window", "unity-launch",
     "reuse-window", "performance", "prof-startup", "verbose",
     "logExtensionHostCommunication", "disable-extensions", "list-extensions",
     "show-versions", "nolazy", "skip-getting-started", "sticky-quickopen",
     "disable-telemetry", "disable-updates", "disable-crash-reporter",
     "skip-add-to-recently-opened", "ps"}

OptionsAlias ==
    << <<"add", "a">>, <<"help", "h">>, <<"version", "v">>, <<"wait", "w">>,
       <<"diff", "d">>, <<"goto", "g">>, <<"ps", "p">>, <<"new-window", "n">>,
       <<"reuse-window", "r">>, <<"performance", "p">>,
       <<"disable-extensions", "disableExtensions">>,
       <<"extensions-dir", "extensionHomePath">>,
       <<"debugPluginHost", "inspect-extensions">>,
       <<"debugBrkPluginHost", "inspect-brk-extensions">>,
       <<"debugSearch", "inspect-search">>,
       <<"debugBrkSearch", "inspect-brk-search">> >>

(***************************************************************************)
(* minimist(args, options), for tokens that are "--", a flag of FlagKeys or *)
(* a text without a dash.                                                  *)
(***************************************************************************)
\* aliases: each entry of options.alias in key order; a later entry replaces
\* an earlier one for the same name.
RECURSIVE AliasesFrom(_, _)
AliasesFrom(entries, aliases) ==
    IF entries = <<>> THEN aliases
    ELSE LET key == Head(entries)[1]
             x == Head(entries)[2]
         IN  AliasesFrom(Tail(entries), (x :> {key}) @@ (key :> {x}) @@ aliases)

Aliases == AliasesFrom(OptionsAlias, <<>>)

AliasesOf(key) == IF key \in DOMAIN Aliases THEN Aliases[key] ELSE {}

\* flags.bools[key] || aliasIsBoolean(key)
IsBooleanKey(key) ==
    key \in OptionsBoolean \/ \E x \in AliasesOf(key) : x \in OptionsBoolean

\* flags.strings[key], set for each string option and its alias.
IsStringKey(key) ==
    key \in OptionsString \/ \E x \in AliasesOf(key) : x \in OptionsString

StartsWithDash(token) == token # <<>> /\ token[1] = "-"

\* isNumber(x) and String(Number(x)): a run of digits becomes the number.
IsNumber(token) == token # <<>> /\ \A i \in DOMAIN token : IsDigit(token[i])

RECURSIVE DropLeadingZeros(_)
DropLeadingZeros(token) ==
    IF Len(token) > 1 /\ token[1] = "0" THEN DropLeadingZeros(Tail(token)) ELSE token

PositionalValue(token) == IF IsNumber(token) THEN DropLeadingZeros(token) ELSE token

\* setArg(key, value): the key and its aliases.
SetArg(argv, key, value) ==
    [argv EXCEPT !.values = [k \in {key} \cup AliasesOf(key) |-> value] @@ @]

\* firstIndex(array, fn), given the indices at which fn holds; 0 when none
\* (indices count from 1).
FirstIndex(matching) ==
    IF matching = {} THEN 0
    ELSE CHOOSE i \in matching : \A j \in matching : i <= j

RECURSIVE MinimistLoop(_, _, _)
MinimistLoop(args, i, argv) ==
    IF i > Len(args) THEN argv
    ELSE LET arg == args[i]
             hasNext == i < Len(args)
         IN  IF arg \in DOMAIN FlagKeys
             THEN LET key == FlagKeys[arg]
                  IN  IF /\ hasNext
                         /\ ~StartsWithDash(args[i + 1])
                         /\ ~IsBooleanKey(key)
                         /\ (Len(arg) > 2 \/ args[i + 1] # <<>>)
                      THEN MinimistLoop(args, i + 2, SetArg(argv, key, args[i + 1]))
                      ELSE MinimistLoop(args, i + 1,
                                        SetArg(argv, key, IF IsStringKey(key) THEN <<>> ELSE TRUE))
             ELSE MinimistLoop(args, i + 1,
                               [argv EXCEPT !.positional = Append(@, PositionalValue(arg))])

Minimist(args) ==
    LET split == FirstIndex({i \in DOMAIN args : args[i] = TokDashDash})
        flagged == IF split = 0 THEN args ELSE SubSeq(args, 1, split - 1)
        notFlags == IF split = 0 THEN <<>> ELSE SubSeq(args, split + 1, Len(args))
        keys == UNION {{k} \cup AliasesOf(k) : k \in OptionsBoolean}
        start == [values |-> [k \in keys |-> FALSE], positional |-> <<>>]
        argv == MinimistLoop(flagged, 1, start)
    IN  [argv EXCEPT !.positional = @ \o notFlags]

(***************************************************************************)
(* validate, stripAppPath and the entry points.                            *)
(***************************************************************************)
\* (:\d*){0,2}$ from position i, n groups matched so far.
RECURSIVE MatchGroups(_, _, _, _)
MatchGroups(s, i, n, most) ==
    \/ i = Len(s) + 1
    \/ /\ n < most
       /\ i <= Len(s)
       /\ s[i] = ":"
       /\ \E j \in i..Len(s) :
            /\ \A k \in (i + 1)..j : IsDigit(s[k])
            /\ MatchGroups(s, j + 1, n + 1, most)

\* [^:]+ from position i, then the groups.
MatchPath(s, i) ==
    \E j \in i..Len(s) :
        /\ \A k \in i..j : s[k] # ":"
        /\ MatchGroups(s, j + 1, 0, 2)

\* /^(\w:)?[^:]+(:\d*){0,2}$/.test(arg)
GotoRegExpTest(s) ==
    \/ MatchPath(s, 1)
    \/ Len(s) >= 2 /\ IsWordChar(s[1]) /\ s[2] = ":" /\ MatchPath(s, 3)

\* validate(args): assert throws at the first argument that fails the test.
validate(args) ==
    IF args.values["goto"] = TRUE
    THEN IF \A i \in DOMAIN args.positional : GotoRegExpTest(args.positional[i])
         THEN [status |-> "ok", args |-> args]
         ELSE [status |-> "formatError", args |-> args]
    ELSE [status |-> "ok", args |-> args]

\* stripAppPath(argv): <<result>>, or <<>> for undefined.
stripAppPath(argv) ==
    LET index == FirstIndex({i \in DOMAIN argv : ~StartsWithDash(argv[i])})
    IN  IF index > 0
        THEN << SubSeq(argv, 1, index - 1) \o SubSeq(argv, index + 1, Len(argv)) >>
        ELSE <<>>

\* validate(parseArgs(args)); args is <<vector>> or <<>> for undefined, on
\* which minimist throws a TypeError (args.indexOf of undefined).  The field
\* vector records what the parser was given.
ValidateParseArgs(args) ==
    IF args = <<>>
    THEN [status |-> "typeError", vector |-> args, args |-> [values |-> <<>>, positional |-> <<>>]]
    ELSE [vector |-> args] @@ validate(Minimist(args[1]))

Drop(s, n) == SubSeq(s, n + 1, Len(s))

parseMainProcessArgv(processArgv, dev) ==
    LET args == Drop(processArgv, 1)
    IN  ValidateParseArgs(IF dev THEN stripAppPath(args) ELSE <<args>>)

parseCLIProcessArgv(processArgv, dev) ==
    LET args == Drop(processArgv, 2)
    IN  ValidateParseArgs(IF dev THEN stripAppPath(args) ELSE <<args>>)

(***************************************************************************)
(* Command-line specification.                                             *)
(***************************************************************************)
BasicTokens == {TokGoto, TokG, TokLocale, TokDashDash, TokP, TokPs, <<"a">>, <<":">>}

InsertAt(s, i, t) == SubSeq(s, 1, i - 1) \o <<t>> \o SubSeq(s, i, Len(s))

\* Vectors of basic tokens, and every text alone or next to one basic token.
ArgLists ==
    SeqsUpTo(BasicTokens, MaxArgs)
    \cup UNION {{InsertAt(base, i, t) : i \in 1..(Len(base) + 1), t \in Texts} :
                    base \in SeqsUpTo(BasicTokens, 1)}

ExecPath == <<"/", "a">>

InitArgv ==
    /\ repositories = <<>>
    /\ configEnabled = FALSE
    /\ resources = InitialResources
    /\ _configListener = FALSE
    /\ history = [enabled |-> FALSE, notified |-> FALSE, cycle |-> 0, redundant |-> FALSE]
    /\ bridges = <<>>
    /\ _providers = <<>>
    /\ _repoListeners = <<>>
    /\ addListeners = 0
    /\ removeListeners = 0
    /\ event = NoEvent
    /\ process \in [argv : {<<ExecPath>> \o a : a \in ArgLists}, dev : BOOLEAN]
    /\ parsed = NotParsed
    /\ help = NoHelp

registrarVars == <<repositories, addListeners, removeListeners, configEnabled, resources,
                   bridges, _providers, _repoListeners, _configListener, event, history>>

ParseMain ==
    /\ parsed' = [entry |-> "main"] @@ parseMainProcessArgv(process.argv, process.dev)
    /\ UNCHANGED <<registrarVars, process, help>>

ParseCLI ==
    /\ parsed' = [entry |-> "cli"] @@ parseCLIProcessArgv(process.argv, process.dev)
    /\ UNCHANGED <<registrarVars, process, help>>

NextArgv == ParseMain \/ ParseCLI

SpecArgv == InitArgv /\ [][NextArgv]_vars

(***************************************************************************)
(* formatOptions and wrapText.  A string is a sequence of characters; the  *)
(* result is one string with "\n" between its lines.                       *)
(***************************************************************************)
LeftPadding == 2
RightPadding == 1
CondensedBelow == 25

MaxPieces == 3
MaxOthers == 1
MaxColumns == 35
MaxLines == 5
ShortWordLen == 2
MediumWordLen == 12
LongWordLen == 32

Min(a, b) == IF a < b THEN a ELSE b

Max(a, b) == IF a > b THEN a ELSE b

\* ' '.repeat(n)
Spaces(n) == [i \in 1..n |-> " "]

\* String.prototype.slice(start, end): a negative index counts from the end.
SliceIndex(len, i) == IF i < 0 THEN Max(len + i, 0) ELSE Min(i, len)

Slice(text, start, end) ==
    SubSeq(text, SliceIndex(Len(text), start) + 1, SliceIndex(Len(text), end))

SliceFrom(text, start) == Slice(text, start, Len(text))

\* String.prototype.lastIndexOf(ch, fromIndex): the greatest index (from 0) at
\* or before fromIndex that holds ch, -1 when there is none.
LastIndexOf(text, ch, fromIndex) ==
    LET found == {i \in 0..Min(fromIndex, Len(text) - 1) : text[i + 1] = ch}
    IN  IF found = {} THEN -1 ELSE CHOOSE i \in found : \A j \in found : j <= i

\* String.prototype.trim()
RECURSIVE TrimStart(_)
TrimStart(text) ==
    IF text # <<>> /\ Head(text) = " " THEN TrimStart(Tail(text)) ELSE text

RECURSIVE TrimEnd(_)
TrimEnd(text) ==
    IF text # <<>> /\ text[Len(text)] = " " THEN TrimEnd(SubSeq(text, 1, Len(text) - 1)) ELSE text

Trim(text) == TrimEnd(TrimStart(text))

\* Array.prototype.join(sep)
RECURSIVE Join(_, _)
Join(lines, sep) ==
    IF lines = <<>> THEN <<>>
    ELSE IF Len(lines) = 1 THEN lines[1]
    ELSE lines[1] \o sep \o Join(Tail(lines), sep)

\* What string concatenation makes of undefined.
Undefined == <<"u", "n", "d", "e", "f", "i", "n", "e", "d">>

\* Object.keys(options)
KeysOf(options) == [i \in DOMAIN options |-> options[i].key]

\* Math.max.apply(null, keys.map(k => k.length)) + 2 + 1, for a table with a key.
ArgLength(keys) ==
    LET lengths == {Len(keys[i]) : i \in DOMAIN keys}
    IN  (CHOOSE n \in lengths : \A m \in lengths : m <= n) + LeftPadding + RightPadding

\* The test with the bound included.
IsCondensed_Inclusive(columns, argLength) == columns - argLength <= CondensedBelow

\* columns - argLength < 25
IsCondensed(columns, argLength) == columns - argLength < CondensedBelow

\* keys.reduce((r, key) => r.concat([`  ${key}`, `      ${options[key]}`]), [])
RECURSIVE CondensedLines(_)
CondensedLines(options) ==
    IF options = <<>> THEN <<>>
    ELSE << Spaces(2) \o Head(options).key, Spaces(6) \o Head(options).description >>
         \o CondensedLines(Tail(options))

\* One iteration of the loop of wrapText, lines 182-185.
wrapText_iteration(text, columns) ==
    LET index == IF Len(text) < columns THEN Len(text) ELSE LastIndexOf(text, " ", columns)
    IN  [line |-> Trim(Slice(text, 0, index)), text |-> SliceFrom(text, index)]

\* The continuation lines, lines 172-174.
RECURSIVE Continuation(_, _, _)
Continuation(wrappedDescription, i, argLength) ==
    IF i > Len(wrappedDescription) THEN <<>>
    ELSE <<"\n">> \o Spaces(argLength) \o wrappedDescription[i]
         \o Continuation(wrappedDescription, i + 1, argLength)

\* The body of keys.forEach, lines 167-174, given the wrapped description.
FormatEntry(result, k, wrappedDescription, argLength) ==
    LET keyPadding == Spaces(argLength - Len(k) - LeftPadding)
        first == IF wrappedDescription = <<>> THEN Undefined ELSE wrappedDescription[1]
    IN  (IF Len(result) > 0 THEN result \o <<"\n">> ELSE result)
        \o Spaces(2) \o k \o keyPadding \o first
        \o Continuation(wrappedDescription, 2, argLength)

\* formatOptions up to its first call of wrapText, lines 157-166.  A table
\* without a key has Math.max of nothing, -Infinity, which the comparison
\* with 25 does not take for narrow, and forEach has nothing to format.
formatOptions(h) ==
    LET keys == KeysOf(h.options)
    IN  IF keys = <<>>
        THEN [h EXCEPT !.pc = "done"]
        ELSE IF IsCondensed(h.columns, ArgLength(keys))
        THEN [h EXCEPT !.pc = "done", !.argLength = ArgLength(keys), !.condensed = TRUE,
                       !.result = Join(CondensedLines(h.options), <<"\n">>)]
        ELSE [h EXCEPT !.pc = "wrapText", !.argLength = ArgLength(keys), !.k = 1,
                       !.text = h.options[1].description]

(***************************************************************************)
(* Help specification: one call of formatOptions, the loop of wrapText     *)
(* taken one iteration at a time.                                          *)
(***************************************************************************)
Word(n) == [i \in 1..n |-> "a"]

Pieces == {<<" ">>, Word(ShortWordLen), Word(MediumWordLen), Word(LongWordLen)}

RECURSIVE Concat(_)
Concat(pieces) == IF pieces = <<>> THEN <<>> ELSE Head(pieces) \o Concat(Tail(pieces))

Descriptions == {Concat(pieces) : pieces \in SeqsUpTo(Pieces, MaxPieces)}

KeyShort == <<"-", "h">>
KeyLong == <<"-", "-", "w", "a", "i", "t">>
KeyOther == <<"-", "v">>

OtherEntries ==
    {[key |-> KeyLong, description |-> Word(MediumWordLen) \o <<" ">> \o Word(MediumWordLen)],
     [key |-> KeyOther, description |-> Word(ShortWordLen)]}

\* The empty table, and every table of one entry with any description placed
\* among at most MaxOthers other entries; the keys of a table are distinct.
Tables ==
    {<<>>} \cup
    UNION {{InsertAt(base, i, [key |-> KeyShort, description |-> d]) :
                i \in 1..(Len(base) + 1), d \in Descriptions} :
           base \in {b \in SeqsUpTo(OtherEntries, MaxOthers) :
                        \A i, j \in DOMAIN b : i # j => b[i].key # b[j].key}}

\* One column short of the wrapped layout for the shortest key, and wider.
Columns == (CondensedBelow + Len(KeyShort) + LeftPadding)..MaxColumns

InitHelp ==
    /\ repositories = <<>>
    /\ configEnabled = FALSE
    /\ resources = InitialResources
    /\ _configListener = FALSE
    /\ history = [enabled |-> FALSE, notified |-> FALSE, cycle |-> 0, redundant |-> FALSE]
    /\ bridges = <<>>
    /\ _providers = <<>>
    /\ _repoListeners = <<>>
    /\ addListeners = 0
    /\ removeListeners = 0
    /\ event = NoEvent
    /\ process = NoProcess
    /\ parsed = NotParsed
    /\ help \in {[NoHelp EXCEPT !.pc = "formatOptions", !.options = options, !.columns = columns] :
                    options \in Tables, columns \in Columns}

\* formatOptions(options, columns) is entered.
FormatOptions ==
    /\ help.pc = "formatOptions"
    /\ help' = formatOptions(help)
    /\ UNCHANGED <<registrarVars, process, parsed>>

\* One iteration of while (text.length) in wrapText.
WrapTextIteration ==
    /\ help.pc = "wrapText"
    /\ Len(help.text) > 0
    /\ Len(help.lines) < MaxLines
    /\ LET step == wrapText_iteration(help.text, help.columns - help.argLength - 1)
       IN  help' = [help EXCEPT !.text = step.text, !.lines = Append(@, step.line)]
    /\ UNCHANGED <<registrarVars, process, parsed>>

\* wrapText returns; the entry is added to the result and the next entry, if
\* there is one, is taken up.
WrapTextReturn ==
    /\ help.pc = "wrapText"
    /\ Len(help.text) = 0
    /\ LET emitted == [help EXCEPT
                          !.result = FormatEntry(@, help.options[help.k].key, help.lines,
                                                 help.argLength),
                          !.wrapped = Append(@, help.lines),
                          !.lines = <<>>]
       IN  help' = IF help.k < Len(help.options)
                   THEN [emitted EXCEPT !.k = @ + 1,
                                        !.text = help.options[help.k + 1].description]
                   ELSE [emitted EXCEPT !.pc = "done"]
    /\ UNCHANGED <<registrarVars, process, parsed>>

NextHelp == FormatOptions \/ WrapTextIteration \/ WrapTextReturn

SpecHelp == InitHelp /\ [][NextHelp]_vars

(***************************************************************************)
(* Command-line properties.                                                *)
(***************************************************************************)
DigitRuns == {t \in Texts : \A i \in DOMAIN t : IsDigit(t[i])}

DrivePrefixes == {<<>>} \cup {<<c, ":">> : c \in {d \in Chars : IsWordChar(d)}}

LineSuffixes == {<<>>} \cup {<<":">> \o d : d \in DigitRuns}
                \cup {(<<":">> \o d) \o (<<":">> \o e) : d \in DigitRuns, e \in DigitRuns}

\* [drive:]path[:line[:character]]: an optional word character and colon, a
\* non-empty colon-free path, at most two groups of a colon and a run of digits.
HasGotoShape(s) ==
    \E drive \in DrivePrefixes : \E suffix \in LineSuffixes :
        /\ Len(drive) + Len(suffix) < Len(s)
        /\ SubSeq(s, 1, Len(drive)) = drive
        /\ SubSeq(s, Len(s) - Len(suffix) + 1, Len(s)) = suffix
        /\ \A k \in (Len(drive) + 1)..(Len(s) - Len(suffix)) : s[k] # ":"

\* The vector the entry point means to parse: the leading tokens discarded
\* and, in development mode, the first token without a leading dash removed.
IntendedArgs(entry) ==
    LET args == Drop(process.argv, IF entry = "main" THEN 1 ELSE 2)
        index == FirstIndex({i \in DOMAIN args : ~StartsWithDash(args[i])})
    IN  IF process.dev /\ index > 0
        THEN SubSeq(args, 1, index - 1) \o SubSeq(args, index + 1, Len(args))
        ELSE args

\* C10: with the goto flag set, an entry point succeeds exactly when every
\* positional argument has the shape [drive:]path[:line[:character]] and
\* otherwise raises the format error; without the flag no positional argument
\* is rejected.
C10_GotoValidation ==
    parsed.entry # "none" =>
        LET given == Minimist(IntendedArgs(parsed.entry))
        IN  IF given.values["goto"] = TRUE
            THEN /\ parsed.status = "ok" <=>
                        \A i \in DOMAIN given.positional : HasGotoShape(given.positional[i])
                 /\ parsed.status # "ok" => parsed.status = "formatError"
            ELSE parsed.status # "formatError"

\* The same for every call in which the parser received an argument vector.
GotoValidationWhenParsed ==
    (parsed.entry # "none" /\ parsed.status # "typeError") =>
        IF parsed.args.values["goto"] = TRUE
        THEN parsed.status = "ok" <=>
                \A i \in DOMAIN parsed.args.positional : HasGotoShape(parsed.args.positional[i])
        ELSE parsed.status = "ok"

\* The tokens left after the entry point's discard.
AfterDiscard(entry) == Drop(process.argv, IF entry = "main" THEN 1 ELSE 2)

BeforeDashDash(args) ==
    LET split == FirstIndex({i \in DOMAIN args : args[i] = TokDashDash})
    IN  IF split = 0 THEN args ELSE SubSeq(args, 1, split - 1)

AfterDashDash(args) ==
    LET split == FirstIndex({i \in DOMAIN args : args[i] = TokDashDash})
    IN  IF split = 0 THEN <<>> ELSE SubSeq(args, split + 1, Len(args))

\* The tokens that are neither a flag nor the value of a string-valued flag.
RECURSIVE NonFlagTokens(_, _)
NonFlagTokens(args, i) ==
    IF i > Len(args) THEN <<>>
    ELSE IF args[i] \in DOMAIN FlagKeys
    THEN IF /\ FlagKeys[args[i]] \in OptionsString
            /\ i < Len(args)
            /\ ~StartsWithDash(args[i + 1])
         THEN NonFlagTokens(args, i + 2)
         ELSE NonFlagTokens(args, i + 1)
    ELSE <<args[i]>> \o NonFlagTokens(args, i + 1)

\* A positional value is the token, or the number a token of digits spells.
SameArgument(token, value) ==
    \/ value = token
    \/ /\ token # <<>>
       /\ \A k \in DOMAIN token : IsDigit(token[k])
       /\ \E n \in 0..(Len(token) - 1) :
            /\ \A k \in 1..n : token[k] = "0"
            /\ value = SubSeq(token, n + 1, Len(token))
            /\ (Len(value) = 1 \/ value[1] # "0")

\* The entries of the alias table, restricted to boolean flags, that name key
\* as the flag or as its alias.
BooleanEntriesNaming(key) ==
    {j \in DOMAIN OptionsAlias :
        OptionsAlias[j][1] \in OptionsBoolean /\ key \in Range(OptionsAlias[j])}

PositionalInOrder(expected) ==
    /\ Len(parsed.args.positional) = Len(expected)
    /\ \A i \in DOMAIN expected : SameArgument(expected[i], parsed.args.positional[i])

\* C11: outside development mode the main entry point parses the vector
\* without its first token and the CLI entry point without its first two, the
\* rest in order: each boolean flag given in long or short form is true under
\* its canonical key and its alias key, and the non-flag tokens are the
\* positional list, in order.
C11_EntryPointsDiscardAndParse ==
    (parsed.entry # "none" /\ ~process.dev) =>
        LET args == AfterDiscard(parsed.entry)
            flagged == BeforeDashDash(args)
        IN  /\ parsed.vector = <<args>>
            /\ \A i \in DOMAIN flagged :
                  flagged[i] \in DOMAIN FlagKeys =>
                      \A j \in BooleanEntriesNaming(FlagKeys[flagged[i]]) :
                          /\ parsed.args.values[OptionsAlias[j][1]] = TRUE
                          /\ parsed.args.values[OptionsAlias[j][2]] = TRUE
            /\ PositionalInOrder(NonFlagTokens(flagged, 1) \o AfterDashDash(args))

\* The same for the flags whose alias no other flag has.
DiscardAndParseUnsharedAliases ==
    (parsed.entry # "none" /\ ~process.dev) =>
        LET args == AfterDiscard(parsed.entry)
            flagged == BeforeDashDash(args)
        IN  /\ parsed.vector = <<args>>
            /\ \A i \in DOMAIN flagged :
                  (flagged[i] \in DOMAIN FlagKeys
                   /\ Cardinality(BooleanEntriesNaming(FlagKeys[flagged[i]])) = 1) =>
                      \A j \in BooleanEntriesNaming(FlagKeys[flagged[i]]) :
                          /\ parsed.args.values[OptionsAlias[j][1]] = TRUE
                          /\ parsed.args.values[OptionsAlias[j][2]] = TRUE
            /\ PositionalInOrder(NonFlagTokens(flagged, 1) \o AfterDashDash(args))

\* C15: in development mode the parser is given the post-discard vector with
\* its first token without a leading dash removed and every other token kept
\* in order; with no such token it is given the vector unchanged, never an
\* absent value.
C15_DevelopmentModeStrips ==
    (parsed.entry # "none" /\ process.dev) =>
        parsed.vector = <<IntendedArgs(parsed.entry)>>

\* The same for the vectors that have a token without a leading dash.
StripsWhenTokenPresent ==
    (/\ parsed.entry # "none"
     /\ process.dev
     /\ \E i \in DOMAIN AfterDiscard(parsed.entry) :
            ~StartsWithDash(AfterDiscard(parsed.entry)[i])) =>
        parsed.vector = <<IntendedArgs(parsed.entry)>>

AliasNames == {OptionsAlias[j][2] : j \in DOMAIN OptionsAlias}

\* The canonical flags whose alias is a.
AliasOwners(a) == {OptionsAlias[j][1] : j \in {k \in DOMAIN OptionsAlias : OptionsAlias[k][2] = a}}

\* C16: every alias of the flag schema belongs to exactly one canonical flag:
\* a flag given by its alias sets that canonical flag, and no canonical boolean
\* flag is set that no token of the vector names.
C16_AliasBelongsToOneFlag ==
    (parsed.entry # "none" /\ parsed.status # "typeError") =>
        LET flagged == BeforeDashDash(parsed.vector[1])
            keys == {FlagKeys[flagged[i]] : i \in {k \in DOMAIN flagged : flagged[k] \in DOMAIN FlagKeys}}
            named == UNION {IF key \in AliasNames THEN AliasOwners(key) ELSE {key} : key \in keys}
        IN  /\ \A key \in keys \cap AliasNames :
                  /\ Cardinality(AliasOwners(key)) = 1
                  /\ \A flag \in AliasOwners(key) \cap OptionsBoolean :
                        parsed.args.values[flag] = TRUE
            /\ {flag \in OptionsBoolean : parsed.args.values[flag] = TRUE} \subseteq named

(***************************************************************************)
(* Help properties.                                                        *)
(***************************************************************************)
RECURSIVE SplitLines(_)
SplitLines(text) ==
    LET i == FirstIndex({k \in DOMAIN text : text[k] = "\n"})
    IN  IF i = 0 THEN <<text>>
        ELSE <<SubSeq(text, 1, i - 1)>> \o SplitLines(SubSeq(text, i + 1, Len(text)))

\* The lines of the returned string.
OutputLines == IF help.result = <<>> THEN <<>> ELSE SplitLines(help.result)

\* The longest flag string of the table, plus 3: the left-column width.
LeftColumn ==
    LET lengths == {Len(help.options[i].key) : i \in DOMAIN help.options}
    IN  (CHOOSE n \in lengths : \A m \in lengths : m <= n) + 3

\* The number of output lines the entries before entry i take.
RECURSIVE LinesBefore(_)
LinesBefore(i) ==
    IF i <= 1 THEN 0 ELSE LinesBefore(i - 1) + Max(1, Len(help.wrapped[i - 1]))

IsPrefix(p, text) == Len(p) <= Len(text) /\ SubSeq(text, 1, Len(p)) = p

CondensedLayoutReached ==
    ~(help.pc = "done" /\ Len(OutputLines) = 4 /\ help.columns - LeftColumn = 24)

\* C13: in the wrapped layout every wrapped description line is at most
\* columns minus the left-column width minus 1 long, and no output line is
\* longer than columns.
C13_WrappedLinesFit ==
    (help.pc = "done" /\ help.options # <<>> /\ ~help.condensed) =>
        /\ \A i \in DOMAIN help.wrapped : \A j \in DOMAIN help.wrapped[i] :
                Len(help.wrapped[i][j]) <= help.columns - LeftColumn - 1
        /\ \A i \in DOMAIN OutputLines : Len(OutputLines[i]) <= help.columns

\* text has a run of more than n characters without a space.
HasWordLongerThan(text, n) ==
    \E i \in 1..(Len(text) - n) : \A k \in i..(i + n) : text[k] # " "

\* The same when no word of a description is longer than the description width.
WrappedLinesFitShortWords ==
    (/\ help.pc = "done"
     /\ help.options # <<>>
     /\ ~help.condensed
     /\ \A i \in DOMAIN help.options :
            ~HasWordLongerThan(help.options[i].description, help.columns - LeftColumn - 1)) =>
        /\ \A i \in DOMAIN help.wrapped : \A j \in DOMAIN help.wrapped[i] :
                Len(help.wrapped[i][j]) <= help.columns - LeftColumn - 1
        /\ \A i \in DOMAIN OutputLines : Len(OutputLines[i]) <= help.columns

\* C18: every iteration of the loop of wrapText leaves a strictly shorter
\* remaining text, whatever the description and the width, so every call of
\* formatOptions returns.
C18_WrapTextShortens ==
    [][WrapTextIteration => Len(help'.text) < Len(help.text)]_vars

\* The same for a remaining text that does not begin with a space.
ShortensUnlessLeadingSpace ==
    [][(WrapTextIteration /\ help.text[1] # " ") => Len(help'.text) < Len(help.text)]_vars

====
